---- MODULE Spec2Model ----
(***************************************************************************)
(* Model of field_observatory_s3.FOBucket: read-only accessors over an S3  *)
(* bucket holding per-field events.json documents, CSV timeseries and one  *)
(* shared GeoJSON boundary document.                                       *)
(*                                                                         *)
(* Representation.                                                         *)
(*  - A Python str that the code takes apart (keys, prefixes, field ids,   *)
(*    URLs) is a sequence of tokens; "+" is \o.                            *)
(*  - A JSON scalar is a record [t, n, s]: t is the Python type, n the     *)
(*    number (whole-valued floats only, so -99.0 is n = -99 and the JSON   *)
(*    integer -99 is the same value, as in Python), s the text.            *)
(*  - A dict key that is not in the dict holds Missing; "k in d" is        *)
(*    Has(d, k).  A subscript of a missing key raises KeyError.            *)
(*  - A call returns an outcome [status, exc, value, requests]: status     *)
(*    "ok" with the returned value, or "raise" with the exception's name;  *)
(*    requests is the get-object requests the call issued, in order.       *)
(***************************************************************************)
EXTENDS Integers, Sequences, FiniteSets, TLC

VARIABLES bucket, op, args, result, requests

vars == <<bucket, op, args, result, requests>>

----------------------------------------------------------------------------
(* Python values *)

Num(x) == [t |-> "num", n |-> x, s |-> ""]
Str(x) == [t |-> "str", n |-> 0, s |-> x]
None == [t |-> "none", n |-> 0, s |-> ""]
Missing == [t |-> "missing", n |-> 0, s |-> ""]
EmptyList == [t |-> "list", n |-> 0, s |-> ""]

Has(d, k) == d[k] # Missing

Ok(v, reqs) == [status |-> "ok", exc |-> "", value |-> v, requests |-> reqs]
Raise(e, reqs) == [status |-> "raise", exc |-> e, value |-> None, requests |-> reqs]

----------------------------------------------------------------------------
(* str operations on token sequences *)

startswith(s, prefix) ==
    /\ Len(prefix) <= Len(s)
    /\ SubSeq(s, 1, Len(prefix)) = prefix

endswith(s, suffix) ==
    /\ Len(suffix) <= Len(s)
    /\ SubSeq(s, Len(s) - Len(suffix) + 1, Len(s)) = suffix

replace(s, old, new) == [i \in 1..Len(s) |-> IF s[i] = old THEN new ELSE s[i]]

path_join(a, b) ==
    IF a = <<>> THEN b
    ELSE IF a[Len(a)] = "/" THEN a \o b
    ELSE a \o <<"/">> \o b

----------------------------------------------------------------------------
(* Module and class constants *)

FO_BLOCK_GEOJSON == <<"fieldobs_blocks_translated", ".geojson">>
FO_BUCKET_ENDPOINT == <<"https://", "data.lit.fmi.fi">>
FO_BUCKET_NAME == <<"field-observatory">>

----------------------------------------------------------------------------
(* The bucket: a sequence of objects [key, body] in the order the service  *)
(* lists them; keys are distinct.  body is the parsed content.             *)

RECURSIVE filter_prefix(_, _, _)
filter_prefix(objects, prefix, i) ==
    IF i > Len(objects) THEN <<>>
    ELSE IF startswith(objects[i].key, prefix)
         THEN <<objects[i]>> \o filter_prefix(objects, prefix, i + 1)
         ELSE filter_prefix(objects, prefix, i + 1)

object_url(key) ==
    LET end_point == <<FO_BUCKET_ENDPOINT[2]>>
    IN  <<"https://">> \o FO_BUCKET_NAME \o <<".">> \o end_point \o <<"/">> \o key

list_files(b, prefix, return_key) ==
    LET objects == filter_prefix(b, prefix, 1)
    IN  [i \in 1..Len(objects) |->
            IF return_key THEN objects[i].key ELSE object_url(objects[i].key)]

in_list(x, xs) == \E i \in 1..Len(xs) : xs[i] = x

has_key(b, key) == \E i \in 1..Len(b) : b[i].key = key

object_body(b, key) == b[CHOOSE i \in 1..Len(b) : b[i].key = key].body

GetObject(key) == [api |-> "get_object", key |-> key]

----------------------------------------------------------------------------
(* Event file handling *)

(* get_events with the object requested before the listing is consulted *)
get_events_fetch_first(b, field_id) ==
    LET prefix == replace(field_id, "_", "/")
        field_files == list_files(b, prefix, TRUE)
        events_file == path_join(prefix, <<"events", ".json">>)
    IN  [events |-> IF in_list(events_file, field_files)
                    THEN object_body(b, events_file) ELSE None,
         requests |-> <<GetObject(events_file)>>]

(* Returns [events, requests]: events is the parsed document or None. *)
get_events(b, field_id) ==
    LET prefix == replace(field_id, "_", "/")
        field_files == list_files(b, prefix, TRUE)
        events_file == path_join(prefix, <<"events", ".json">>)
    IN  IF in_list(events_file, field_files)
        THEN [events |-> object_body(b, events_file),
              requests |-> <<GetObject(events_file)>>]
        ELSE [events |-> None, requests |-> <<>>]

RECURSIVE harvest_dates_loop(_, _, _, _)
harvest_dates_loop(management_events, i, harvest_dates, reqs) ==
    IF i > Len(management_events) THEN Ok(harvest_dates, reqs)
    ELSE LET event == management_events[i]
         IN  IF event.mgmt_operations_event = "harvest"
             THEN IF ~Has(event, "date") THEN Raise("KeyError", reqs)
                  ELSE harvest_dates_loop(management_events, i + 1,
                                          Append(harvest_dates, event.date), reqs)
             ELSE harvest_dates_loop(management_events, i + 1, harvest_dates, reqs)

get_harvest_dates(b, field_id) ==
    LET got == get_events(b, field_id)
    IN  IF got.events = None THEN Ok(<<>>, got.requests)
        ELSE harvest_dates_loop(got.events.management.events, 1, <<>>, got.requests)

RECURSIVE mowing_dates_loop(_, _, _, _)
mowing_dates_loop(management_events, i, mowing_dates, reqs) ==
    IF i > Len(management_events) THEN Ok(mowing_dates, reqs)
    ELSE LET event == management_events[i]
         IN  IF event.mgmt_operations_event = "mowing"
             THEN IF ~Has(event, "date") THEN Raise("KeyError", reqs)
                  ELSE mowing_dates_loop(management_events, i + 1,
                                         Append(mowing_dates, event.date), reqs)
             ELSE mowing_dates_loop(management_events, i + 1, mowing_dates, reqs)

get_mowing_dates(b, field_id) ==
    LET got == get_events(b, field_id)
    IN  IF got.events = None THEN Ok(<<>>, got.requests)
        ELSE mowing_dates_loop(got.events.management.events, 1, <<>>, got.requests)

RECURSIVE species_events_loop(_, _, _, _)
species_events_loop(management_events, i, species_events, reqs) ==
    IF i > Len(management_events) THEN Ok(species_events, reqs)
    ELSE LET event == management_events[i]
             kind == event.mgmt_operations_event
             species == IF kind = "harvest" THEN event.harvest_crop
                        ELSE IF Has(event, "moved_crop") THEN event.moved_crop
                        ELSE Str("-99.0")
         IN  IF kind = "harvest" /\ ~Has(event, "harvest_crop")
             THEN Raise("KeyError", reqs)
             ELSE IF kind \notin {"harvest", "mowing"}
             THEN species_events_loop(management_events, i + 1, species_events, reqs)
             ELSE IF ~Has(event, "date") THEN Raise("KeyError", reqs)
             ELSE species_events_loop(management_events, i + 1,
                      Append(species_events,
                             [date |-> event.date, species |-> species,
                              event_type |-> kind]), reqs)

get_species_events(b, field_id) ==
    LET got == get_events(b, field_id)
    IN  IF got.events = None THEN Ok(<<>>, got.requests)
        ELSE species_events_loop(got.events.management.events, 1, <<>>, got.requests)

RECURSIVE harvest_amounts_loop(_, _, _, _)
harvest_amounts_loop(management_events, i, harvest_amounts, reqs) ==
    IF i > Len(management_events) THEN Ok(harvest_amounts, reqs)
    ELSE LET event == management_events[i]
             raw == IF Has(event, "harvest_yield_harvest_dw_total")
                    THEN event.harvest_yield_harvest_dw_total
                    ELSE event.harvest_yield_harvest_dw
             amount == IF raw = Num(-99) \/ raw = Str("-99.0") THEN None ELSE raw
         IN  IF event.mgmt_operations_event = "harvest"
                /\ (Has(event, "harvest_yield_harvest_dw_total")
                    \/ Has(event, "harvest_yield_harvest_dw"))
             THEN harvest_amounts_loop(management_events, i + 1,
                                       Append(harvest_amounts, amount), reqs)
             ELSE harvest_amounts_loop(management_events, i + 1, harvest_amounts, reqs)

get_harvest_amounts(b, field_id) ==
    LET got == get_events(b, field_id)
    IN  IF got.events = None THEN Ok(<<>>, got.requests)
        ELSE harvest_amounts_loop(got.events.management.events, 1, <<>>, got.requests)

(* harvest_info_loop skipping an event without amount fields, as the     *)
(* harvest-amounts loop does                                             *)
RECURSIVE harvest_info_loop_skip(_, _, _, _)
harvest_info_loop_skip(management_events, i, harvest_events, reqs) ==
    IF i > Len(management_events) THEN Ok(harvest_events, reqs)
    ELSE LET event == management_events[i]
             raw == IF Has(event, "harvest_yield_harvest_dw_total")
                    THEN event.harvest_yield_harvest_dw_total
                    ELSE event.harvest_yield_harvest_dw
             amount == IF raw = Str("-99.0") THEN None ELSE raw
         IN  IF event.mgmt_operations_event = "harvest"
                /\ (Has(event, "harvest_yield_harvest_dw_total")
                    \/ Has(event, "harvest_yield_harvest_dw"))
             THEN harvest_info_loop_skip(management_events, i + 1,
                      Append(harvest_events,
                             [date |-> event.date, amount |-> amount,
                              event_type |-> "harvest"]), reqs)
             ELSE harvest_info_loop_skip(management_events, i + 1, harvest_events, reqs)

RECURSIVE harvest_info_loop(_, _, _, _)
harvest_info_loop(management_events, i, harvest_events, reqs) ==
    IF i > Len(management_events) THEN Ok(harvest_events, reqs)
    ELSE LET event == management_events[i]
             raw == IF Has(event, "harvest_yield_harvest_dw_total")
                    THEN event.harvest_yield_harvest_dw_total
                    ELSE IF Has(event, "harvest_yield_harvest_dw")
                    THEN event.harvest_yield_harvest_dw
                    ELSE None
             amount == IF raw = Str("-99.0") THEN None ELSE raw
         IN  IF event.mgmt_operations_event = "harvest"
             THEN IF ~Has(event, "date") THEN Raise("KeyError", reqs)
                  ELSE harvest_info_loop(management_events, i + 1,
                           Append(harvest_events,
                                  [date |-> event.date, amount |-> amount,
                                   event_type |-> "harvest"]), reqs)
             ELSE harvest_info_loop(management_events, i + 1, harvest_events, reqs)

get_harvest_info(b, field_id) ==
    LET got == get_events(b, field_id)
    IN  IF got.events = None THEN Ok(<<>>, got.requests)
        ELSE harvest_info_loop(got.events.management.events, 1, <<>>, got.requests)

RECURSIVE mowings_as_harvest_info_loop(_, _, _, _)
mowings_as_harvest_info_loop(management_events, i, harvest_events, reqs) ==
    IF i > Len(management_events) THEN Ok(harvest_events, reqs)
    ELSE LET event == management_events[i]
         IN  IF event.mgmt_operations_event = "mowing"
             THEN IF ~Has(event, "date") THEN Raise("KeyError", reqs)
                  ELSE mowings_as_harvest_info_loop(management_events, i + 1,
                           Append(harvest_events,
                                  [date |-> event.date, amount |-> None,
                                   event_type |-> "mowing"]), reqs)
             ELSE mowings_as_harvest_info_loop(management_events, i + 1,
                                               harvest_events, reqs)

get_mowings_as_harvest_info(b, field_id) ==
    LET got == get_events(b, field_id)
    IN  IF got.events = None THEN Ok(<<>>, got.requests)
        ELSE mowings_as_harvest_info_loop(got.events.management.events, 1, <<>>,
                                          got.requests)

get_observation_events(b, field_id) ==
    LET got == get_events(b, field_id)
    IN  IF got.events = None THEN Ok(<<>>, got.requests)
        ELSE Ok(SelectSeq(got.events.management.events,
                          LAMBDA event : event.mgmt_operations_event = "observation"),
                got.requests)

RECURSIVE AGB_observations_loop(_, _, _, _)
AGB_observations_loop(observation_events, i, AGB_observations, reqs) ==
    IF i > Len(observation_events) THEN Ok(AGB_observations, reqs)
    ELSE LET event == observation_events[i]
         IN  IF /\ Has(event, "observation_type")
                /\ event.observation_type = Str("observation_type_vegetation")
                /\ Has(event, "tops_C")
                /\ event.tops_C # Str("-99.0")
             THEN IF ~Has(event, "date") THEN Raise("KeyError", reqs)
                  ELSE AGB_observations_loop(observation_events, i + 1,
                           Append(AGB_observations,
                                  [date |-> event.date, AGB |-> event.tops_C]), reqs)
             ELSE AGB_observations_loop(observation_events, i + 1,
                                        AGB_observations, reqs)

get_AGB_observations(b, field_id) ==
    LET got == get_observation_events(b, field_id)
    IN  AGB_observations_loop(got.value, 1, <<>>, got.requests)

----------------------------------------------------------------------------
(* pd.to_datetime on the date strings of the model: the Timestamp each     *)
(* parses to.  Two spellings of one instant parse to equal Timestamps.     *)

to_datetime(v) ==
    CASE v.s = "2021-06-01" -> [year |-> 2021, month |-> 6, day |-> 1, hour |-> 0]
      [] v.s = "2021-06-01T00:00:00" -> [year |-> 2021, month |-> 6, day |-> 1, hour |-> 0]
      [] v.s = "2021-07-01" -> [year |-> 2021, month |-> 7, day |-> 1, hour |-> 0]
      [] v.s = "2021-08-01" -> [year |-> 2021, month |-> 8, day |-> 1, hour |-> 0]

(* Get harvest amount of specific date and field *)
RECURSIVE harvest_amount_loop(_, _, _, _)
harvest_amount_loop(harvest_events, i, date, amount) ==
    IF i > Len(harvest_events) THEN amount
    ELSE LET event == harvest_events[i]
         IN  IF to_datetime(event.date) = to_datetime(date)
             THEN harvest_amount_loop(harvest_events, i + 1, date,
                      IF event.amount = Str("-99.0") THEN None ELSE event.amount)
             ELSE harvest_amount_loop(harvest_events, i + 1, date, None)

get_harvest_amount(b, field_id, date) ==
    LET got == get_harvest_info(b, field_id)
    IN  IF got.status = "raise" THEN got
        ELSE Ok(harvest_amount_loop(got.value, 1, date, None), got.requests)

(* event_type_loop resetting the result on a dated event of another date, *)
(* as the harvest-amount loop does                                         *)
RECURSIVE event_type_loop_reset(_, _, _, _)
event_type_loop_reset(management_events, i, date, event_type) ==
    IF i > Len(management_events) THEN event_type
    ELSE LET event == management_events[i]
         IN  IF ~Has(event, "date")
             THEN event_type_loop_reset(management_events, i + 1, date, event_type)
             ELSE IF to_datetime(event.date) = to_datetime(date)
             THEN event_type_loop_reset(management_events, i + 1, date,
                                        Str(event.mgmt_operations_event))
             ELSE event_type_loop_reset(management_events, i + 1, date, None)

(* Get event type of specific date and field *)
RECURSIVE event_type_loop(_, _, _, _)
event_type_loop(management_events, i, date, event_type) ==
    IF i > Len(management_events) THEN event_type
    ELSE LET event == management_events[i]
         IN  IF ~Has(event, "date")
             THEN event_type_loop(management_events, i + 1, date, event_type)
             ELSE IF to_datetime(event.date) = to_datetime(date)
             THEN event_type_loop(management_events, i + 1, date,
                                  Str(event.mgmt_operations_event))
             ELSE event_type_loop(management_events, i + 1, date, event_type)

get_event_type(b, field_id, date) ==
    LET got == get_events(b, field_id)
    IN  IF got.events = None THEN Ok(EmptyList, got.requests)
        ELSE Ok(event_type_loop(got.events.management.events, 1, date, None),
                got.requests)

----------------------------------------------------------------------------
(* CSV data handling.  A DataFrame is [columns, index_name, index, rows]:  *)
(* index holds the row labels, rows the cells of the data columns.         *)

csv_files(files) == SelectSeq(files, LAMBDA f : endswith(f, <<".csv">>))

url_key(url) == SubSeq(url, Len(object_url(<<>>)) + 1, Len(url))

(* pd.read_csv(url): header row, default RangeIndex *)
read_csv(b, f) ==
    LET body == object_body(b, url_key(f))
    IN  [columns |-> body.columns, index_name |-> "",
         index |-> [i \in 1..Len(body.rows) |-> Num(i - 1)],
         rows |-> body.rows]

(* pd.concat of frames with the same columns: rows and labels stacked *)
concat(df, tmp_df) ==
    [columns |-> df.columns, index_name |-> df.index_name,
     index |-> df.index \o tmp_df.index, rows |-> df.rows \o tmp_df.rows]

(* read_files_loop keeping only the frame read last, the concat omitted *)
RECURSIVE read_files_loop_keep_last(_, _, _, _)
read_files_loop_keep_last(b, files, i, df) ==
    IF i > Len(files) THEN df
    ELSE read_files_loop_keep_last(b, files, i + 1, read_csv(b, files[i]))

RECURSIVE read_files_loop(_, _, _, _)
read_files_loop(b, files, i, df) ==
    IF i > Len(files) THEN df
    ELSE LET tmp_df == read_csv(b, files[i])
         IN  read_files_loop(b, files, i + 1,
                             IF i = 1 THEN tmp_df ELSE concat(df, tmp_df))

HttpGet(url) == [api |-> "http_get", key |-> url_key(url)]

read_files_to_dataframe(b, files) ==
    LET reqs == [i \in 1..Len(files) |-> HttpGet(files[i])]
        df == read_files_loop(b, files, 1, None)
        time_col == df.columns[1]
    IN  IF Len(files) = 0 THEN Raise("UnboundLocalError", reqs)
        ELSE Ok([columns |-> Tail(df.columns), index_name |-> time_col,
                 index |-> [i \in 1..Len(df.rows) |-> to_datetime(df.rows[i][1])],
                 rows |-> [i \in 1..Len(df.rows) |-> Tail(df.rows[i])]], reqs)

get_timeseries_data(b, prefix) ==
    LET files == csv_files(list_files(b, prefix, FALSE))
    IN  read_files_to_dataframe(b, files)

(* The bound call self.get_timeseries_data with the positional arguments  *)
(* call_args: the method's signature takes exactly one, prefix.           *)
call_get_timeseries_data(b, call_args) ==
    IF Len(call_args) # 1 THEN Raise("TypeError", <<>>)
    ELSE get_timeseries_data(b, call_args[1])

get_field_timeseries_data(b, field_id, data_type) ==
    LET prefix == replace(field_id, "_", "/") \o <<"/">> \o data_type
    IN  call_get_timeseries_data(b, <<prefix, data_type>>)

get_site_timeseries_data(b, site_id, data_type) ==
    LET prefix == site_id \o <<"/">> \o data_type
    IN  call_get_timeseries_data(b, <<prefix, data_type>>)

----------------------------------------------------------------------------
(* Field metadata *)

read_block_geojson(b) ==
    IF has_key(b, FO_BLOCK_GEOJSON)
    THEN Ok(object_body(b, FO_BLOCK_GEOJSON), <<GetObject(FO_BLOCK_GEOJSON)>>)
    ELSE Raise("ClientError", <<GetObject(FO_BLOCK_GEOJSON)>>)

(* field_information_loop without the break: the last match is kept *)
RECURSIVE field_information_loop_last(_, _, _)
field_information_loop_last(features, i, field_id) ==
    IF i > Len(features) THEN None
    ELSE LET feature == features[i]
             later == field_information_loop_last(features, i + 1, field_id)
         IN  IF feature.properties.id = field_id /\ later = None THEN feature
             ELSE later

RECURSIVE field_information_loop(_, _, _)
field_information_loop(features, i, field_id) ==
    IF i > Len(features) THEN None
    ELSE LET feature == features[i]
         IN  IF feature.properties.id = field_id THEN feature
             ELSE field_information_loop(features, i + 1, field_id)

get_field_information(b, field_id) ==
    LET got == read_block_geojson(b)
        field_information == field_information_loop(got.value.features, 1, field_id)
    IN  IF got.status = "raise" THEN got
        ELSE IF field_information = None THEN Raise("ValueError", got.requests)
        ELSE Ok(field_information, got.requests)

get_field_geometry(b, field_id) ==
    LET got == get_field_information(b, field_id)
    IN  IF got.status = "raise" THEN got
        ELSE Ok(got.value.geometry, got.requests)

----------------------------------------------------------------------------
(* Bounds and the inputs drawn from them *)

MaxEvents == 2
MaxFeatures == 3
MaxRows == 2

SeqsUpTo(S, n) == UNION {[1..k -> S] : k \in 0..n}

ki_0 == <<"ki", "_", "0">>
ki_1 == <<"ki", "_", "1">>
ki == <<"ki">>
FieldIds == {ki_0, ki_1}
SiteIds == {ki}
ndvi == <<"ndvi">>
fmimeteo == <<"fmimeteo">>

QueryDates == {Str("2021-06-01T00:00:00"), Str("2021-07-01")}

Event(kind, date, total, dw, harvest_crop, moved_crop, observation_type, tops_C) ==
    [mgmt_operations_event |-> kind, date |-> date,
     harvest_yield_harvest_dw_total |-> total, harvest_yield_harvest_dw |-> dw,
     harvest_crop |-> harvest_crop, moved_crop |-> moved_crop,
     observation_type |-> observation_type, tops_C |-> tops_C]

Harvest(date, total, dw, harvest_crop) ==
    Event("harvest", date, total, dw, harvest_crop, Missing, Missing, Missing)

Mowing(date, moved_crop) ==
    Event("mowing", date, Missing, Missing, Missing, moved_crop, Missing, Missing)

Observation(date, observation_type, tops_C) ==
    Event("observation", date, Missing, Missing, Missing, Missing, observation_type, tops_C)

Other(kind, date) ==
    Event(kind, date, Missing, Missing, Missing, Missing, Missing, Missing)

(* <<harvest_yield_harvest_dw_total, harvest_yield_harvest_dw>> *)
AmountPairs ==
    {<<Missing, Missing>>, <<Num(5), Missing>>, <<Missing, Num(7)>>,
     <<Num(-99), Missing>>, <<Str("-99.0"), Missing>>,
     <<Missing, Num(-99)>>, <<Missing, Str("-99.0")>>, <<Num(5), Str("-99.0")>>}

(* Harvest and mowing events carry a date (the accessors subscript it      *)
(* without a test); a harvest event may lack harvest_crop, a mowing event  *)
(* moved_crop; events of other kinds may lack the date.                    *)
HarvestEvents ==
    {Harvest(Str(d), p[1], p[2], Str("grass")) :
        d \in {"2021-06-01", "2021-07-01"}, p \in AmountPairs}
    \cup {Harvest(Str("2021-06-01T00:00:00"), Num(5), Missing, Str("grass")),
          Harvest(Str("2021-06-01"), Str("-99.0"), Missing, Missing)}

MowingEvents ==
    {Mowing(Str(d), c) : d \in {"2021-06-01", "2021-07-01"},
                         c \in {Missing, Str("clover")}}

ObservationEvents ==
    {Observation(Str("2021-07-01"), Str("observation_type_vegetation"), Num(12)),
     Observation(Str("2021-06-01"), Str("observation_type_vegetation"), Str("-99.0")),
     Observation(Missing, Str("observation_type_soil"), Missing)}

OtherEvents == {Other("planting", Str("2021-06-01")), Other("planting", Missing)}

Events == HarvestEvents \cup MowingEvents \cup ObservationEvents \cup OtherEvents

Object(key, body) == [key |-> key, body |-> body]

EventsKey(prefix) == prefix \o <<"/", "events", ".json">>

EventsDocument(events) == [management |-> [events |-> events]]

(* ki_0 has an events document, ki_1 has none *)
EventBuckets ==
    {<<Object(EventsKey(<<"ki", "/", "0">>), EventsDocument(es))>> :
        es \in SeqsUpTo(Events, MaxEvents)}

Feature(id, geometry) == [properties |-> [id |-> id], geometry |-> geometry]

Features == {Feature(id, g) : id \in FieldIds, g \in {"G1", "G2"}}

BoundaryBuckets ==
    {<<Object(FO_BLOCK_GEOJSON, [features |-> fs])>> :
        fs \in SeqsUpTo(Features, MaxFeatures)}

CsvRows == {<<Str("2021-06-01"), Num(1)>>, <<Str("2021-07-01"), Num(2)>>}

CsvBodies ==
    {[columns |-> <<"time", "ndvi">>, rows |-> rs] : rs \in SeqsUpTo(CsvRows, MaxRows)}

(* A body, or Missing for an object that is not in the bucket *)
Present(key, body) == IF body = Missing THEN <<>> ELSE <<Object(key, body)>>

CsvBuckets ==
    {Present(<<"ki", "/", "0", "/", "ndvi", "/", "a", ".csv">>, a)
     \o Present(<<"ki", "/", "0", "/", "ndvi", "/", "b", ".csv">>, c)
     \o Present(<<"ki", "/", "0", "/", "ndvi", "/", "readme", ".txt">>, t)
     \o Present(<<"ki", "/", "fmimeteo", "/", "a", ".csv">>, m) :
        a \in CsvBodies \cup {Missing}, c \in CsvBodies \cup {Missing},
        t \in {Missing, [text |-> "notes"]},
        m \in {Missing, [columns |-> <<"time", "t_air">>,
                         rows |-> <<<<Str("2021-06-01"), Num(3)>>>>]}}

Buckets == EventBuckets \cup BoundaryBuckets \cup CsvBuckets

----------------------------------------------------------------------------
(* The client: idle, or holding the outcome of the call op(args) *)

Init ==
    /\ bucket \in Buckets
    /\ op = "idle"
    /\ args = <<>>
    /\ result = None
    /\ requests = <<>>

Returned(name, call_args, outcome) ==
    /\ op = "idle"
    /\ op' = name
    /\ args' = call_args
    /\ result' = [status |-> outcome.status, exc |-> outcome.exc,
                  value |-> outcome.value]
    /\ requests' = outcome.requests
    /\ UNCHANGED bucket

GetHarvestDates ==
    \E field_id \in FieldIds :
        Returned("get_harvest_dates", <<field_id>>, get_harvest_dates(bucket, field_id))

GetMowingDates ==
    \E field_id \in FieldIds :
        Returned("get_mowing_dates", <<field_id>>, get_mowing_dates(bucket, field_id))

GetSpeciesEvents ==
    \E field_id \in FieldIds :
        Returned("get_species_events", <<field_id>>, get_species_events(bucket, field_id))

GetHarvestAmounts ==
    \E field_id \in FieldIds :
        Returned("get_harvest_amounts", <<field_id>>, get_harvest_amounts(bucket, field_id))

GetHarvestInfo ==
    \E field_id \in FieldIds :
        Returned("get_harvest_info", <<field_id>>, get_harvest_info(bucket, field_id))

GetMowingsAsHarvestInfo ==
    \E field_id \in FieldIds :
        Returned("get_mowings_as_harvest_info", <<field_id>>,
                 get_mowings_as_harvest_info(bucket, field_id))

GetObservationEvents ==
    \E field_id \in FieldIds :
        Returned("get_observation_events", <<field_id>>,
                 get_observation_events(bucket, field_id))

GetAGBObservations ==
    \E field_id \in FieldIds :
        Returned("get_AGB_observations", <<field_id>>,
                 get_AGB_observations(bucket, field_id))

GetHarvestAmount ==
    \E field_id \in FieldIds, date \in QueryDates :
        Returned("get_harvest_amount", <<field_id, date>>,
                 get_harvest_amount(bucket, field_id, date))

GetEventType ==
    \E field_id \in FieldIds, date \in QueryDates :
        Returned("get_event_type", <<field_id, date>>,
                 get_event_type(bucket, field_id, date))

GetFieldTimeseriesData ==
    \E field_id \in FieldIds, data_type \in {ndvi} :
        Returned("get_field_timeseries_data", <<field_id, data_type>>,
                 get_field_timeseries_data(bucket, field_id, data_type))

GetSiteTimeseriesData ==
    \E site_id \in SiteIds, data_type \in {fmimeteo} :
        Returned("get_site_timeseries_data", <<site_id, data_type>>,
                 get_site_timeseries_data(bucket, site_id, data_type))

GetTimeseriesData ==
    \E prefix \in {<<"ki", "/", "0", "/", "ndvi">>, <<"ki", "/", "1", "/", "ndvi">>,
                   <<"ki", "/", "fmimeteo">>} :
        Returned("get_timeseries_data", <<prefix>>, get_timeseries_data(bucket, prefix))

GetFieldInformation ==
    \E field_id \in FieldIds :
        Returned("get_field_information", <<field_id>>,
                 get_field_information(bucket, field_id))

GetFieldGeometry ==
    \E field_id \in FieldIds :
        Returned("get_field_geometry", <<field_id>>,
                 get_field_geometry(bucket, field_id))

(* The caller takes the outcome; the client keeps nothing between calls *)
Return ==
    /\ op # "idle"
    /\ op' = "idle"
    /\ args' = <<>>
    /\ result' = None
    /\ requests' = <<>>
    /\ UNCHANGED bucket

Next ==
    \/ GetHarvestDates
    \/ GetMowingDates
    \/ GetSpeciesEvents
    \/ GetHarvestAmounts
    \/ GetHarvestInfo
    \/ GetMowingsAsHarvestInfo
    \/ GetObservationEvents
    \/ GetAGBObservations
    \/ GetHarvestAmount
    \/ GetEventType
    \/ GetFieldTimeseriesData
    \/ GetSiteTimeseriesData
    \/ GetTimeseriesData
    \/ GetFieldInformation
    \/ GetFieldGeometry
    \/ Return

Spec == Init /\ [][Next]_vars

----------------------------------------------------------------------------
(* Vocabulary of the properties *)

PathFromId(id) == [i \in 1..Len(id) |-> IF id[i] = "_" THEN "/" ELSE id[i]]

EventsKeyOf(field_id) == PathFromId(field_id) \o <<"/", "events", ".json">>

HasEventsDocument(field_id) == \E i \in 1..Len(bucket) : bucket[i].key = EventsKeyOf(field_id)

EventLog(field_id) ==
    bucket[CHOOSE i \in 1..Len(bucket) : bucket[i].key = EventsKeyOf(field_id)]
        .body.management.events

IsHarvest(e) == e.mgmt_operations_event = "harvest"
IsMowing(e) == e.mgmt_operations_event = "mowing"
HasAmountField(e) ==
    e.harvest_yield_harvest_dw_total # Missing \/ e.harvest_yield_harvest_dw # Missing
ResolvedAmount(e) ==
    IF e.harvest_yield_harvest_dw_total # Missing
    THEN e.harvest_yield_harvest_dw_total ELSE e.harvest_yield_harvest_dw
IsSentinel(v) == v = Num(-99) \/ v = Str("-99.0")

HarvestsOf(field_id) == SelectSeq(EventLog(field_id), IsHarvest)
HarvestsWithAmountOf(field_id) ==
    SelectSeq(EventLog(field_id), LAMBDA e : IsHarvest(e) /\ HasAmountField(e))

SameDate(d1, d2) == to_datetime(d1) = to_datetime(d2)

SetMax(S) == CHOOSE x \in S : \A y \in S : y <= x
SetMin(S) == CHOOSE x \in S : \A y \in S : x <= y

ListAccessors ==
    {"get_harvest_dates", "get_mowing_dates", "get_species_events",
     "get_harvest_amounts", "get_harvest_info", "get_mowings_as_harvest_info",
     "get_observation_events", "get_AGB_observations"}

----------------------------------------------------------------------------
(* C1: a harvest event whose resolved amount field is the sentinel -99.0,  *)
(* as a number or as the string "-99.0", is reported with amount None by   *)
(* get_harvest_amounts and by get_harvest_info, and get_harvest_amount     *)
(* never returns the sentinel.                                             *)
C1_SentinelIsAbsentInEveryView ==
    /\ (op = "get_harvest_amounts" /\ HasEventsDocument(args[1])) =>
          /\ result.status = "ok"
          /\ Len(result.value) = Len(HarvestsWithAmountOf(args[1]))
          /\ \A i \in 1..Len(result.value) :
                IsSentinel(ResolvedAmount(HarvestsWithAmountOf(args[1])[i]))
                    => result.value[i] = None
    /\ (op = "get_harvest_info" /\ HasEventsDocument(args[1])) =>
          /\ result.status = "ok"
          /\ Len(result.value) = Len(HarvestsOf(args[1]))
          /\ \A i \in 1..Len(result.value) :
                IsSentinel(ResolvedAmount(HarvestsOf(args[1])[i]))
                    => result.value[i].amount = None
    /\ (op = "get_harvest_amount" /\ HasEventsDocument(args[1])) =>
          /\ result.status = "ok"
          /\ ~IsSentinel(result.value)

(* C2: get_harvest_amount returns the amount of the last harvest-info      *)
(* entry whose date equals the query date, wherever that entry stands;     *)
(* None only when no entry's date equals the query date (or that entry's   *)
(* amount is None).                                                        *)
C2_LastMatchingHarvestAmount ==
    (op = "get_harvest_amount" /\ HasEventsDocument(args[1])) =>
        LET info == get_harvest_info(bucket, args[1]).value
            matches == {i \in 1..Len(info) : SameDate(info[i].date, args[2])}
        IN  /\ result.status = "ok"
            /\ result.value = IF matches = {} THEN None
                              ELSE info[SetMax(matches)].amount

(* C3: for a field with an events document, get_event_type returns the     *)
(* mgmt_operations_event of the last event, of any kind, that has a date   *)
(* equal to the query date; None when there is none; events without a      *)
(* date never change the result.                                           *)
C3_EventTypeOfLastMatch ==
    (op = "get_event_type" /\ HasEventsDocument(args[1])) =>
        LET log == EventLog(args[1])
            matches == {i \in 1..Len(log) :
                           log[i].date # Missing /\ SameDate(log[i].date, args[2])}
        IN  /\ result.status = "ok"
            /\ result.value = IF matches = {} THEN None
                              ELSE Str(log[SetMax(matches)].mgmt_operations_event)

(* a match followed by a dated event of another date and by an undated one,
   or an undated event before the match *)
C3_Witness ==
    /\ op = "get_event_type" /\ HasEventsDocument(args[1])
    /\ result.status = "ok" /\ result.value.t = "str"
    /\ LET log == EventLog(args[1])
       IN  \E i, j \in 1..Len(log) :
              /\ i < j
              /\ log[i].date # Missing /\ SameDate(log[i].date, args[2])
              /\ log[j].date = Missing

(* C4: for a field whose key listing has no <prefix>/events.json, every    *)
(* list-valued accessor returns the empty list without raising, and no     *)
(* get-object request for the events key is issued.                        *)
C4_NoEventsDocumentGivesEmptyList ==
    (op \in ListAccessors /\ ~HasEventsDocument(args[1])) =>
        /\ result.status = "ok"
        /\ result.value = <<>>
        /\ \A i \in 1..Len(requests) : requests[i].key # EventsKeyOf(args[1])

C4_Witness ==
    /\ op = "get_AGB_observations" /\ ~HasEventsDocument(args[1])
    /\ bucket # <<>>
    /\ \E i \in 1..Len(bucket) : startswith(bucket[i].key, <<"ki", "/">>)
    /\ result.status = "ok" /\ result.value = <<>> /\ requests = <<>>

(* C5: for a field with no events document, get_harvest_amount and         *)
(* get_event_type return None for every query date, as they do for an      *)
(* events document whose management.events is empty.                       *)
C5_NoEventsDocumentGivesNone ==
    (op \in {"get_harvest_amount", "get_event_type"} /\ ~HasEventsDocument(args[1])) =>
        /\ result.status = "ok"
        /\ result.value = None

(* C6: get_harvest_info has exactly one entry per harvest event, in        *)
(* document order, with event_type "harvest" and amount None for an event  *)
(* that has neither amount field; get_harvest_amounts has one entry per    *)
(* harvest event that has at least one amount field.                       *)
C6_HarvestInfoNeverSkips ==
    /\ (op = "get_harvest_info" /\ HasEventsDocument(args[1])) =>
          LET hs == HarvestsOf(args[1])
          IN  /\ result.status = "ok"
              /\ Len(result.value) = Len(hs)
              /\ \A i \in 1..Len(hs) :
                    /\ result.value[i].date = hs[i].date
                    /\ result.value[i].event_type = "harvest"
                    /\ ~HasAmountField(hs[i]) => result.value[i].amount = None
    /\ (op = "get_harvest_amounts" /\ HasEventsDocument(args[1])) =>
          /\ result.status = "ok"
          /\ Len(result.value) = Len(HarvestsWithAmountOf(args[1]))

(* a harvest event without amount fields, after one that has an amount *)
C6_Witness ==
    /\ op = "get_harvest_info" /\ HasEventsDocument(args[1])
    /\ LET hs == HarvestsOf(args[1])
       IN  /\ Len(hs) = 2 /\ HasAmountField(hs[1]) /\ ~HasAmountField(hs[2])
           /\ hs[1].date # hs[2].date
    /\ result.status = "ok" /\ Len(result.value) = 2
    /\ result.value[2].amount = None

C7_Document ==
    <<Harvest(Str("2021-06-01"), Str("-99.0"), Missing, Missing),
      Mowing(Str("2021-07-01"), Missing)>>

(* C7: on the document [harvest 2021-06-01 with                            *)
(* harvest_yield_harvest_dw_total "-99.0" and no harvest_crop; mowing      *)
(* 2021-07-01 with no moved_crop], get_species_events returns exactly      *)
(* [{date: "2021-07-01", species: "-99.0", event_type: "mowing"}].         *)
C7_SpeciesEventsOfExample ==
    (/\ op = "get_species_events"
     /\ HasEventsDocument(args[1])
     /\ EventLog(args[1]) = C7_Document) =>
        /\ result.status = "ok"
        /\ result.value = <<[date |-> Str("2021-07-01"), species |-> Str("-99.0"),
                             event_type |-> "mowing"]>>

(* C8: every mowing event has its entry in get_species_events, with its    *)
(* own date, event_type "mowing" and species moved_crop, or the string     *)
(* "-99.0" when it has no moved_crop.                                      *)
C8_MowingSpecies ==
    (op = "get_species_events" /\ HasEventsDocument(args[1])) =>
        LET log == EventLog(args[1])
        IN  \A i \in 1..Len(log) :
                IsMowing(log[i]) =>
                    /\ result.status = "ok"
                    /\ \E k \in 1..Len(result.value) :
                          result.value[k] =
                              [date |-> log[i].date,
                               species |-> IF log[i].moved_crop = Missing
                                           THEN Str("-99.0") ELSE log[i].moved_crop,
                               event_type |-> "mowing"]

(* C9: where get_timeseries_data returns a table on the prefix            *)
(* <pathFromId>/<dataType>, get_field_timeseries_data and                  *)
(* get_site_timeseries_data return that table.                             *)
C9_WrappersDelegate ==
    /\ op = "get_field_timeseries_data" =>
          LET expected == get_timeseries_data(bucket,
                              PathFromId(args[1]) \o <<"/">> \o args[2])
          IN  expected.status = "ok" =>
                  result.status = "ok" /\ result.value = expected.value
    /\ op = "get_site_timeseries_data" =>
          LET expected == get_timeseries_data(bucket, args[1] \o <<"/">> \o args[2])
          IN  expected.status = "ok" =>
                  result.status = "ok" /\ result.value = expected.value

HasBoundaryDocument == \E i \in 1..Len(bucket) : bucket[i].key = FO_BLOCK_GEOJSON

BoundaryFeatures ==
    bucket[CHOOSE i \in 1..Len(bucket) : bucket[i].key = FO_BLOCK_GEOJSON].body.features

(* C10: get_field_information returns the first feature of the boundary    *)
(* document whose properties.id is the field id, also when several have    *)
(* it; when none has it, it raises ValueError.                             *)
C10_FirstFeatureOrNotFound ==
    (op = "get_field_information" /\ HasBoundaryDocument) =>
        LET matches == {i \in 1..Len(BoundaryFeatures) :
                           BoundaryFeatures[i].properties.id = args[1]}
        IN  IF matches = {}
            THEN result.status = "raise" /\ result.exc = "ValueError"
            ELSE /\ result.status = "ok"
                 /\ result.value = BoundaryFeatures[SetMin(matches)]

(* two features share the id and differ; another field's feature comes first *)
C10_Witness ==
    /\ op = "get_field_information" /\ HasBoundaryDocument
    /\ result.status = "ok"
    /\ \E i, j \in 1..Len(BoundaryFeatures) :
          /\ 1 < i /\ i < j
          /\ BoundaryFeatures[1].properties.id # args[1]
          /\ BoundaryFeatures[i].properties.id = args[1]
          /\ BoundaryFeatures[j].properties.id = args[1]
          /\ BoundaryFeatures[i] # BoundaryFeatures[j]
          /\ result.value = BoundaryFeatures[i]

(* the objects listed under a prefix, in listing order, whose key ends in  *)
(* ".csv"                                                                  *)
ListedCsvObjects(prefix) ==
    SelectSeq(bucket,
              LAMBDA o : /\ Len(prefix) <= Len(o.key)
                         /\ SubSeq(o.key, 1, Len(prefix)) = prefix
                         /\ o.key[Len(o.key)] = ".csv")

ListedOtherObjects(prefix) ==
    SelectSeq(bucket,
              LAMBDA o : /\ Len(prefix) <= Len(o.key)
                         /\ SubSeq(o.key, 1, Len(prefix)) = prefix
                         /\ o.key[Len(o.key)] # ".csv")

RECURSIVE StackedRows(_)
StackedRows(objects) ==
    IF objects = <<>> THEN <<>>
    ELSE Head(objects).body.rows \o StackedRows(Tail(objects))

(* C11: with at least one listed object ending in ".csv",                  *)
(* get_timeseries_data returns a table whose rows are the rows of the      *)
(* listed ".csv" objects and of no other object, stacked in listing order  *)
(* and row order; the first column is the row key, parsed as a timestamp,  *)
(* and is removed from the data columns.                                   *)
C11_RowsOfCsvObjectsStacked ==
    (op = "get_timeseries_data" /\ ListedCsvObjects(args[1]) # <<>>) =>
        LET files == ListedCsvObjects(args[1])
            stacked == StackedRows(files)
            header == files[1].body.columns
        IN  /\ result.status = "ok"
            /\ Len(result.value.rows) = Len(stacked)
            /\ Len(result.value.index) = Len(stacked)
            /\ \A k \in 1..Len(stacked) :
                  /\ result.value.index[k] = to_datetime(stacked[k][1])
                  /\ result.value.rows[k] = Tail(stacked[k])
            /\ result.value.index_name = header[1]
            /\ result.value.columns = Tail(header)

(* two ".csv" objects with different rows and an object of another suffix  *)
(* listed under the prefix                                                 *)
C11_Witness ==
    /\ op = "get_timeseries_data"
    /\ Len(ListedCsvObjects(args[1])) = 2
    /\ ListedOtherObjects(args[1]) # <<>>
    /\ LET files == ListedCsvObjects(args[1])
       IN  /\ Len(files[1].body.rows) = 2
           /\ Len(files[2].body.rows) = 1
           /\ files[1].body.rows[1] # files[1].body.rows[2]
           /\ files[1].body.rows[1] # files[2].body.rows[1]
    /\ result.status = "ok"
    /\ Len(result.value.rows) = 3


====
